---- MODULE Spec2Model ----
(***************************************************************************)
(* selenobot: Dataset, BalancedBatchSampler and get_dataloader             *)
(* (selenobot/dataset.py) and Classifier.predict / Classifier.fit          *)
(* (selenobot/classifiers.py).                                             *)
(*                                                                         *)
(* Dataset indices are the Python ones (0-based); TLA+ sequences hold them *)
(* at positions 1..Len.  An id is a sequence of characters.                *)
(***************************************************************************)
EXTENDS Integers, Sequences, FiniteSets, TLC

\* ------------------------------------------------------------------ bounds
MaxLen == 5        \* records in a Dataset
MaxBatch == 6      \* largest batch_size tried
MinBatch == 2      \* batch sizes go down to -MinBatch
MaxPasses == 2     \* iterations over one sampler (training epochs)
MaxRecords == 3    \* records of the Dataset handed to predict
ProbMax == 2       \* probabilities are k/ProbMax, k in 0..ProbMax
MaxEpochs == 2     \* epochs argument of fit
MaxLoss == 1       \* validation losses are 0..MaxLoss

IdPool == { <<"P", "1">>, <<"P", "1", "[", "1", "]">> }
BatchSizes == (0 - MinBatch)..MaxBatch
None == -1         \* Python's None where the other values are numbers >= 0
InitWeights == -2  \* the state_dict the constructor initialises
Thresholds == (0..(ProbMax + 1)) \cup {None}

VARIABLES
  pc,             \* "start", "dataset" (a Dataset exists), "sampler" (__init__ was called)
  ids,            \* Dataset.ids, a sequence of ids
  outcome,        \* how BalancedBatchSampler.__init__ ended: "none" before the call
  batch_size,     \* the batch_size argument of the sampler
  num_batches,    \* the local num_batches when __init__ ended
  batches,        \* self.batches: a sequence of rows (<<>> when never assigned)
  sel_idxs,       \* the local sel_idxs when __init__ ended (resized and reshuffled)
  non_sel_idxs,   \* the local non_sel_idxs when __init__ ended (shuffled and truncated)
  num_resampled,  \* data_source.num_resampled
  num_removed,    \* data_source.num_removed
  it_pos,         \* rows already yielded by the live iterator; -1: no iterator
  it_rows,        \* the rows the live iterator has yielded, in order
  first_rows,     \* the rows of the first exhausted iteration
  passes,         \* iterations started over the sampler
  len_seen,       \* what the last len(sampler) returned (None: never asked)
  outputs,        \* predict: the forward-pass probabilities of the last call
  threshold,      \* predict: the threshold of the last call
  predicted,      \* predict: the returned array
  dataloader,     \* get_dataloader: what the last call gave
  fit_epochs,     \* fit: the epochs argument of the last call (None: never called)
  fit_losses,     \* fit: the validation loss each epoch would measure
  fit_outcome,    \* fit: how the last call ended
  model_weights,  \* the state_dict the model holds: InitWeights, e after epoch e
  best_epoch      \* self.best_epoch (None until fit stores it)

samplerVars == <<outcome, batch_size, num_batches, batches, sel_idxs, non_sel_idxs,
                 num_resampled, num_removed>>
iterVars == <<it_pos, it_rows, first_rows, passes, len_seen>>
classifierVars == <<outputs, threshold, predicted, dataloader, fit_epochs, fit_losses,
                    fit_outcome, model_weights, best_epoch>>
vars == <<pc, ids, samplerVars, iterVars, classifierVars>>

\* ------------------------------------------------------------- python / numpy
Abs(x) == IF x < 0 THEN 0 - x ELSE x

\* int(x / 2) for a Python int x: truncation toward zero.
IntHalf(x) == IF x >= 0 THEN x \div 2 ELSE 0 - ((0 - x) \div 2)

\* a // b for Python ints, b # 0: floor division.
FloorDiv(a, b) ==
  LET q == Abs(a) \div Abs(b)
      exact == (Abs(a) % Abs(b)) = 0
  IN IF (a >= 0) = (b > 0) THEN q
     ELSE IF exact THEN 0 - q ELSE 0 - (q + 1)

Min(a, b) == IF a < b THEN a ELSE b
Max(a, b) == IF a > b THEN a ELSE b

\* a[:k] for a Python sequence.
SliceTo(a, k) ==
  LET stop == IF k >= 0 THEN Min(k, Len(a)) ELSE Max(Len(a) + k, 0)
  IN SubSeq(a, 1, stop)

Range(s) == { s[i] : i \in 1..Len(s) }

RECURSIVE SortedSeq(_)
SortedSeq(S) ==
  IF S = {} THEN <<>>
  ELSE LET m == CHOOSE x \in S : \A y \in S : x <= y
       IN <<m>> \o SortedSeq(S \ {m})

\* random.shuffle / np.random.shuffle: every ordering of the elements.
Shuffles(s) == { [i \in 1..Len(s) |-> s[p[i]]] : p \in Permutations(1..Len(s)) }

\* ndarray.resize semantics in place of np.resize: the tail is filled with zeros.
np_resize_zero_fill(a, new_size) ==
  IF new_size < 0 THEN [err |-> "ValueError", val |-> <<>>]
  ELSE [err |-> "ok", val |-> [i \in 1..new_size |-> IF i <= Len(a) THEN a[i] ELSE 0]]

\* np.resize(a, new_size) for a one-dimensional a: cyclic repetition, cut to
\* new_size; an empty a (or new_size = 0) gives new_size zeros.
np_resize(a, new_size) ==
  IF new_size < 0 THEN [err |-> "ValueError", val |-> <<>>]
  ELSE IF Len(a) = 0 \/ new_size = 0
       THEN [err |-> "ok", val |-> [i \in 1..new_size |-> 0]]
       ELSE [err |-> "ok", val |-> [i \in 1..new_size |-> a[((i - 1) % Len(a)) + 1]]]

\* A split that hands back no parts for a non-positive number of sections.
np_split_lenient(ary, sections) ==
  IF sections <= 0 THEN [err |-> "ok", val |-> <<>>]
  ELSE IF (Len(ary) % sections) # 0 THEN [err |-> "ValueError", val |-> <<>>]
       ELSE LET w == Len(ary) \div sections
            IN [err |-> "ok",
                val |-> [k \in 1..sections |-> SubSeq(ary, (k - 1) * w + 1, k * w)]]

\* np.split(ary, sections) for an integer sections: N % sections is evaluated
\* first (ZeroDivisionError at 0), an uneven division and a non-positive number
\* of sections raise ValueError.
np_split(ary, sections) ==
  IF sections = 0 THEN [err |-> "ZeroDivisionError", val |-> <<>>]
  ELSE IF (Len(ary) % Abs(sections)) # 0 \/ sections < 0
       THEN [err |-> "ValueError", val |-> <<>>]
       ELSE LET w == Len(ary) \div sections
            IN [err |-> "ok",
                val |-> [k \in 1..sections |-> SubSeq(ary, (k - 1) * w + 1, k * w)]]

\* np.concatenate([a, b], axis=1) for two lists of equally many rows.
np_concatenate_axis1(a, b) == [k \in 1..Len(a) |-> a[k] \o b[k]]

\* ndarray.shape of a table built from equally long rows.
Shape(table) == <<Len(table), IF Len(table) = 0 THEN 0 ELSE Len(table[1])>>

\* ----------------------------------------------------------------- Dataset
\* ']' in id
HasMarker(id) == \E i \in 1..Len(id) : id[i] = "]"

\* Dataset.__len__
DatasetLen(d) == Len(d)

\* Dataset.get_selenoprotein_indices: np.where gives the indices in ascending order.
get_selenoprotein_indices(d) ==
  SortedSeq({ i \in 0..(DatasetLen(d) - 1) : HasMarker(d[i + 1]) })

\* np.array(list(set(range(len(data_source))) - set(sel_idxs)))
NonSelIdxs(d, sel) == SortedSeq((0..(DatasetLen(d) - 1)) \ Range(sel))

\* ------------------------------------------------- BalancedBatchSampler.__init__
\* The first assertion with <= for <.
ImbalanceOk_or_equal(sel, non_sel) == Len(sel) <= Len(non_sel)

\* the condition of the first assertion
ImbalanceOk(sel, non_sel) == Len(sel) < Len(non_sel)

\* num_sel_per_batch = int(batch_size * r), r = 0.5
NumSelPerBatch(bs) == IntHalf(bs)

\* num_non_sel_per_batch = batch_size - num_sel_per_batch
NumNonSelPerBatch(bs) == bs - NumSelPerBatch(bs)

\* num_batches counted in whole batches of non-selenoproteins.
NumBatches_by_batch_size(n_non_sel, bs) ==
  IF bs = 0 THEN [err |-> "ZeroDivisionError", val |-> 0]
  ELSE [err |-> "ok", val |-> FloorDiv(n_non_sel, bs)]

\* num_batches = len(non_sel_idxs) // (batch_size - num_sel_per_batch)
NumBatches(n_non_sel, bs) ==
  LET d == bs - NumSelPerBatch(bs)
  IN IF d = 0 THEN [err |-> "ZeroDivisionError", val |-> 0]
     ELSE [err |-> "ok", val |-> FloorDiv(n_non_sel, d)]

\* non_sel_idxs[:num_batches * num_non_sel_per_batch]
TruncateNonSel(non_sel, nb, bs) == SliceTo(non_sel, nb * NumNonSelPerBatch(bs))

\* np.resize(sel_idxs, num_batches * num_sel_per_batch)
ResizeSel(sel, nb, bs) == np_resize(sel, nb * NumSelPerBatch(bs))

\* The two np.split calls, the concatenation and the final shape assertion.
Assemble(sel, non_sel, nb, bs) ==
  LET sel_batches == np_split(sel, nb)
      non_sel_batches == np_split(non_sel, nb)
      table == np_concatenate_axis1(sel_batches.val, non_sel_batches.val)
  IN IF sel_batches.err # "ok" THEN [err |-> sel_batches.err, val |-> <<>>]
     ELSE IF non_sel_batches.err # "ok" THEN [err |-> non_sel_batches.err, val |-> <<>>]
     ELSE IF Shape(table) # <<nb, bs>> THEN [err |-> "AssertionError_shape", val |-> table]
     ELSE [err |-> "ok", val |-> table]

\* How __init__ leaves the state when it raises err.
Raise(err, bs, table) ==
  /\ pc' = "sampler"
  /\ outcome' = err
  /\ batch_size' = bs
  /\ num_batches' = 0
  /\ batches' = table
  /\ UNCHANGED <<sel_idxs, non_sel_idxs, num_resampled, num_removed>>

\* BalancedBatchSampler.__init__(data_source, batch_size)
BalancedBatchSampler_init ==
  /\ pc = "dataset"
  /\ \E bs \in BatchSizes :
       LET sel0 == get_selenoprotein_indices(ids)
           non0 == NonSelIdxs(ids, sel0)
           nb == NumBatches(Len(non0), bs)
       IN IF ~ImbalanceOk(sel0, non0) THEN Raise("AssertionError_imbalance", bs, <<>>)
          ELSE IF nb.err # "ok" THEN Raise(nb.err, bs, <<>>)
          ELSE \E sel1 \in Shuffles(sel0) :
                 LET resized == ResizeSel(sel1, nb.val, bs)
                 IN IF resized.err # "ok" THEN Raise(resized.err, bs, <<>>)
                    ELSE \E sel2 \in Shuffles(resized.val) :
                         \E non1 \in Shuffles(non0) :
                           LET non2 == TruncateNonSel(non1, nb.val, bs)
                               t == Assemble(sel2, non2, nb.val, bs)
                           IN IF t.err # "ok" THEN Raise(t.err, bs, t.val)
                              ELSE /\ pc' = "sampler"
                                   /\ outcome' = "ok"
                                   /\ batch_size' = bs
                                   /\ num_batches' = nb.val
                                   /\ batches' = t.val
                                   /\ sel_idxs' = sel2
                                   /\ non_sel_idxs' = non2
                                   /\ num_resampled' = Len(sel2) - Len(sel0)
                                   /\ num_removed' = Len(non0) - Len(non2)
  /\ UNCHANGED <<ids, iterVars, classifierVars>>

\* Dataset.__init__: the ids column of the input table.
Dataset_init ==
  /\ pc = "start"
  /\ \E n \in 0..MaxLen : \E d \in [1..n -> IdPool] : ids' = d
  /\ pc' = "dataset"
  /\ UNCHANGED <<samplerVars, iterVars, classifierVars>>

\* __len__ as the number of elements instead of the number of batches.
SamplerLen_elements(table) == Len(table) * (IF Len(table) = 0 THEN 0 ELSE Len(table[1]))

\* BalancedBatchSampler.__len__
SamplerLen(table) == Len(table)

\* The row iter(self.batches) yields after pos rows.
SamplerRow(table, pos) == table[pos + 1]

\* BalancedBatchSampler.__iter__: a fresh iterator over self.batches.
Sampler_iter ==
  /\ pc = "sampler" /\ outcome = "ok"
  /\ it_pos = None
  /\ passes < MaxPasses
  /\ it_pos' = 0
  /\ it_rows' = <<>>
  /\ passes' = passes + 1
  /\ UNCHANGED <<pc, ids, samplerVars, first_rows, len_seen, classifierVars>>

\* next() on the live iterator: the next row, or StopIteration after the last.
Sampler_next ==
  /\ it_pos # None
  /\ IF it_pos < Len(batches)
     THEN /\ it_rows' = Append(it_rows, SamplerRow(batches, it_pos))
          /\ it_pos' = it_pos + 1
          /\ UNCHANGED first_rows
     ELSE /\ it_pos' = None
          /\ first_rows' = IF passes = 1 THEN it_rows ELSE first_rows
          /\ UNCHANGED it_rows
  /\ UNCHANGED <<pc, ids, samplerVars, passes, len_seen, classifierVars>>

\* len(sampler), asked of a constructed sampler at any time
Sampler_len ==
  /\ pc = "sampler" /\ outcome = "ok"
  /\ len_seen' = SamplerLen(batches)
  /\ UNCHANGED <<pc, ids, samplerVars, it_pos, it_rows, first_rows, passes, classifierVars>>

\* ------------------------------------------------------------- classifiers.py
\* 1.0 in the units of the probabilities
One == ProbMax

\* Classifier.predict after the forward pass gave out.
Predict(out, t) ==
  IF t # None
  THEN LET ones == [i \in 1..Len(out) |-> One]
       IN [i \in 1..Len(out) |-> IF ones[i] < t THEN 0 ELSE ones[i]]
  ELSE out

Classifier_predict ==
  /\ \E n \in 1..MaxRecords : \E out \in [1..n -> 0..ProbMax] : \E t \in Thresholds :
       /\ outputs' = out
       /\ threshold' = t
       /\ predicted' = Predict(out, t)
  /\ UNCHANGED <<pc, ids, samplerVars, iterVars, dataloader, fit_epochs, fit_losses,
                 fit_outcome, model_weights, best_epoch>>

\* get_dataloader(dataset, batch_size, balance_batches): the balanced branch
\* evaluates the unbound name r before BalancedBatchSampler is called.
get_dataloader(balance_batches) ==
  IF balance_batches THEN "NameError" ELSE "DataLoader_shuffle"

Call_get_dataloader ==
  /\ \E balance_batches \in BOOLEAN : dataloader' = get_dataloader(balance_batches)
  /\ UNCHANGED <<pc, ids, samplerVars, iterVars, outputs, threshold, predicted,
                 fit_epochs, fit_losses, fit_outcome, model_weights, best_epoch>>

\* np.inf among the losses 0..MaxLoss
Inf == MaxLoss + 1

RECURSIVE MinOf(_)
MinOf(s) == IF Len(s) = 1 THEN s[1] ELSE Min(s[1], MinOf(Tail(s)))

\* The epoch loop of fit from epoch on: the weights after epoch e are e.
RECURSIVE FitEpochs(_, _, _, _)
FitEpochs(losses, epoch, val_losses, best) ==
  IF epoch >= Len(losses) THEN [best |-> best, val_losses |-> val_losses]
  ELSE LET appended == Append(val_losses, losses[epoch + 1])
           better == appended[Len(appended)] < MinOf(val_losses)
       IN FitEpochs(losses, epoch + 1, appended,
                    IF better THEN [epoch |-> epoch, weights |-> epoch] ELSE best)

\* Classifier.fit(train_dataset, val_dataset, epochs, lr, batch_size)
Classifier_fit ==
  /\ \E epochs \in 1..MaxEpochs : \E losses \in [1..epochs -> 0..Inf] :
       LET dl == get_dataloader(TRUE)
           run == FitEpochs(losses, 0, <<Inf>>, [epoch |-> 0, weights |-> None])
       IN /\ fit_epochs' = epochs
          /\ fit_losses' = losses
          /\ IF dl = "NameError"
             THEN /\ fit_outcome' = "NameError"
                  /\ UNCHANGED <<model_weights, best_epoch>>
             ELSE IF run.best.weights = None
             THEN /\ fit_outcome' = "load_state_dict_None"
                  /\ model_weights' = epochs - 1
                  /\ UNCHANGED best_epoch
             ELSE /\ fit_outcome' = "ok"
                  /\ model_weights' = run.best.weights
                  /\ best_epoch' = run.best.epoch
  /\ UNCHANGED <<pc, ids, samplerVars, iterVars, outputs, threshold, predicted, dataloader>>

\* ------------------------------------------------------------- specifications
Init ==
  /\ pc = "start"
  /\ ids = <<>>
  /\ outcome = "none"
  /\ batch_size = 0
  /\ num_batches = 0
  /\ batches = <<>>
  /\ sel_idxs = <<>>
  /\ non_sel_idxs = <<>>
  /\ num_resampled = 0
  /\ num_removed = 0
  /\ it_pos = None
  /\ it_rows = <<>>
  /\ first_rows = <<>>
  /\ passes = 0
  /\ len_seen = None
  /\ outputs = <<>>
  /\ threshold = None
  /\ predicted = <<>>
  /\ dataloader = "none"
  /\ fit_epochs = None
  /\ fit_losses = <<>>
  /\ fit_outcome = "none"
  /\ model_weights = InitWeights
  /\ best_epoch = None

\* Dataset and BalancedBatchSampler
Next ==
  \/ Dataset_init \/ BalancedBatchSampler_init
  \/ Sampler_iter \/ Sampler_next \/ Sampler_len
Spec == Init /\ [][Next]_vars

\* Classifier
NextClassifier == Classifier_predict \/ Call_get_dataloader \/ Classifier_fit
SpecClassifier == Init /\ [][NextClassifier]_vars

\* --------------------------------------------------------------------- claims
MinorityIndices == Range(get_selenoprotein_indices(ids))
MajorityIndices == (0..(Len(ids) - 1)) \ MinorityIndices
n_min == Cardinality(MinorityIndices)
n_maj == Cardinality(MajorityIndices)

Attempted == pc = "sampler"
Built == pc = "sampler" /\ outcome = "ok"

\* floor(batch_size * 0.5) and the majority share of a batch, as the claims write them
FloorHalf(bs) == bs \div 2
MajShare(bs) == bs - FloorHalf(bs)

\* the entries of a row that lie in S, counted with repetition
CountIn(row, S) == Cardinality({ j \in 1..Len(row) : row[j] \in S })

\* the occurrences of idx in the whole batch table
Occurrences(idx) ==
  Cardinality({ c \in (1..Len(batches)) \X (1..batch_size) :
                  c[2] <= Len(batches[c[1]]) /\ batches[c[1]][c[2]] = idx })

TableEntries == UNION { Range(batches[k]) : k \in 1..Len(batches) }

DegenerateBatchError == outcome \in {"ZeroDivisionError", "ValueError"}

\* C1 as stated: for every Dataset with n_min < n_maj and EVERY batch_size the
\* constructor yields a table of shape (floor(n_maj / (batch_size -
\* floor(batch_size*0.5))), batch_size) and the shape assertion is not what fails.
C1_Original ==
  (Attempted /\ n_min < n_maj) =>
     /\ outcome = "ok"
     /\ MajShare(batch_size) # 0
     /\ Shape(batches) = <<FloorDiv(n_maj, MajShare(batch_size)), batch_size>>

\* C1 amended: for every Dataset with n_min < n_maj the shape assertion never
\* fails, and for every batch_size >= 1 whose majority share fits into n_maj the
\* constructor yields a table of shape exactly (num_batches, batch_size) with
\* num_batches = floor(n_maj / (batch_size - floor(batch_size*0.5))).
C1_Shape ==
  (Attempted /\ n_min < n_maj) =>
     /\ outcome # "AssertionError_shape"
     /\ (batch_size >= 1 /\ MajShare(batch_size) <= n_maj) =>
           /\ outcome = "ok"
           /\ num_batches = FloorDiv(n_maj, MajShare(batch_size))
           /\ Shape(batches) = <<num_batches, batch_size>>
           /\ \A k \in 1..Len(batches) : Len(batches[k]) = batch_size

C1_Witness ==
  /\ Built /\ n_min >= 1
  /\ Len(batches) >= 2 /\ batch_size = 3
  /\ num_resampled >= 1

\* C2 as stated: for every Dataset with n_min < n_maj (n_min = 0 included) and
\* every batch_size the constructor accepts, each row holds exactly
\* floor(batch_size*0.5) minority indices and batch_size - floor(batch_size*0.5)
\* majority indices.
C2_RowComposition ==
  (Built /\ n_min < n_maj) =>
     \A k \in 1..Len(batches) :
        /\ CountIn(batches[k], MinorityIndices) = FloorHalf(batch_size)
        /\ CountIn(batches[k], MajorityIndices) = batch_size - FloorHalf(batch_size)

\* C3 as stated: with 0 < n_min < n_maj every minority index appears in at
\* least one row of a table the constructor built.
C3_MinorityCoverage ==
  (Built /\ 0 < n_min /\ n_min < n_maj) =>
     \A m \in MinorityIndices : m \in TableEntries

\* C4 as stated: in a built table every entry is a valid Dataset index, every
\* majority index kept by the truncation appears in a row, and no majority index
\* of the dropped tail appears in any row.
C4_IndicesAndTail ==
  Built =>
     /\ \A x \in TableEntries : 0 <= x /\ x < DatasetLen(ids)
     /\ \A x \in Range(non_sel_idxs) : x \in TableEntries
     /\ \A x \in MajorityIndices \ Range(non_sel_idxs) : x \notin TableEntries

C6_Original ==
  (Attempted /\ (batch_size <= 0 \/ MajShare(batch_size) > n_maj)) =>
     /\ DegenerateBatchError
     /\ batches = <<>>

\* C6 amended: on a Dataset with n_min < n_maj, a batch_size <= 0 or one whose
\* majority share exceeds n_maj ends in the degenerate-batch error (a
\* ZeroDivisionError or ValueError of the division or of np.split) and assigns no
\* table; on any Dataset such a batch_size never gives a built sampler.
C6_Degenerate ==
  (Attempted /\ (batch_size <= 0 \/ MajShare(batch_size) > n_maj)) =>
     /\ outcome # "ok"
     /\ batches = <<>>
     /\ n_min < n_maj => DegenerateBatchError

C6_Witness ==
  /\ Attempted /\ n_min < n_maj /\ n_min >= 1
  /\ batch_size > 0 /\ MajShare(batch_size) > n_maj
  /\ outcome = "ZeroDivisionError"

\* C9: the table is fixed at construction: len(sampler) is num_batches
\* throughout, a live iterator has yielded the first rows of the table in table
\* order, and every exhausted iteration yielded exactly the num_batches rows of
\* the table, the same as the first iteration.
C9_FixedTable ==
  Built =>
     /\ len_seen # None => len_seen = num_batches
     /\ it_pos # None => it_rows = SubSeq(batches, 1, it_pos)
     /\ (passes >= 1 /\ it_pos = None) =>
           /\ Len(it_rows) = num_batches
           /\ it_rows = batches
           /\ it_rows = first_rows

C9_Witness ==
  /\ Built /\ passes >= 2 /\ it_pos = None
  /\ len_seen # None
  /\ Len(it_rows) >= 2 /\ batch_size >= 2
  /\ it_rows[1] # it_rows[2]

\* C10: with n_min > 0 the resized minority sequence has num_batches *
\* floor(batch_size*0.5) elements, that many entries of the table are minority
\* indices, and the occurrence counts of any two minority indices differ by at
\* most one.
C10_CyclicResize ==
  (Built /\ n_min > 0) =>
     /\ Len(sel_idxs) = num_batches * FloorHalf(batch_size)
     /\ Cardinality({ c \in (1..Len(batches)) \X (1..batch_size) :
                        batches[c[1]][c[2]] \in MinorityIndices })
          = num_batches * FloorHalf(batch_size)
     /\ \A a, b \in MinorityIndices : Abs(Occurrences(a) - Occurrences(b)) <= 1

C10_Witness ==
  /\ Built /\ n_min >= 2
  /\ \E a, b \in MinorityIndices :
        Occurrences(a) = Occurrences(b) + 1 /\ Occurrences(b) >= 1

\* the earliest epoch whose validation loss is the lowest of all epochs
ArgMinFirst(losses) ==
  CHOOSE e \in 0..(Len(losses) - 1) :
     /\ \A f \in 0..(Len(losses) - 1) : losses[e + 1] <= losses[f + 1]
     /\ \A f \in 0..(e - 1) : losses[f + 1] > losses[e + 1]

\* C7 as stated: every fit with epochs >= 1 ends with the model holding the
\* snapshot of the epoch with the lowest validation loss (the earliest on ties),
\* and best_epoch is that epoch.
C7_BestSnapshot ==
  (fit_epochs # None /\ fit_epochs >= 1) =>
     /\ fit_outcome = "ok"
     /\ best_epoch = ArgMinFirst(fit_losses)
     /\ model_weights = ArgMinFirst(fit_losses)

\* C8 as stated: predict with a threshold t gives 1 for a record whose
\* probability is at least t and 0 below t; with threshold None it gives the
\* probabilities unchanged.
C8_Threshold ==
  /\ Len(predicted) = Len(outputs)
  /\ \A i \in 1..Len(outputs) :
        predicted[i] = IF threshold = None THEN outputs[i]
                       ELSE IF outputs[i] >= threshold THEN One ELSE 0

====
